---- MODULE Spec2Model ----
(***************************************************************************)
(* A state-machine model of the MOBI/PalmDOC reader of src/src/MobiBook.cpp *)
(*                                                                         *)
(* Conventions.                                                            *)
(*  - Bytes are the integers 0..255; a buffer is a sequence of bytes and a  *)
(*    C pointer into it is a 0-based index.                                *)
(*  - An unsigned machine integer that may wrap (size_t, uint32) is held   *)
(*    as its two's-complement signed reading: -1 stands for size_t(-1),    *)
(*    -k for 2^w - k.  ULt/ULe/UGt/UGe compare such values as the          *)
(*    hardware compares the unsigned ones.                                 *)
(*  - assert() is compiled in or out by the build: ndebug is chosen once   *)
(*    in every initial state, and a failing assert of a build with         *)
(*    asserts ends the run in pc = "abort".                                *)
(*  - A read outside a buffer is undefined behaviour: it yields any byte   *)
(*    of GarbageBytes.                                                     *)
(***************************************************************************)
EXTENDS Integers, Sequences, FiniteSets, TLC

VARIABLES
    ndebug,     \* TRUE when the build defines NDEBUG (assert is a no-op)
    pc,         \* position of the single thread of control
    file,       \* the bytes of the input file
    mb,         \* the MobiBook object
    ph,         \* locals of MobiBook::parseHeader
    li,         \* locals of MobiBook::loadImages
    ld,         \* locals of loadDocument and loadDocRecordIntoBuffer
    api,        \* what createFromFile, getImage and getCover returned
    readLog,    \* history: the record numbers passed to readRecord, in order
    hd,         \* the HuffDicDecompressor object (huffDic)
    hs,         \* the activations of HuffDicDecompressor::Decompress
    pu,         \* activation record of PalmdocUncompress
    ex          \* activation record of ExtraDataSize

vars == <<ndebug, pc, file, mb, ph, li, ld, api, readLog, hd, hs, pu, ex>>

huffVars == <<hd, hs>>

bookVars == <<file, mb, ph, li, ld, api, readLog>>

-----------------------------------------------------------------------------
(* Bounds of the model *)
MaxSrcLen == 3
MaxDstLen == 4
MaxRecLen == 5
MaxTrailers == 2
MaxDepth == 3
MaxRecords == 3

(* Bytes an out-of-bounds read may produce *)
GarbageBytes == {0, 65}

-----------------------------------------------------------------------------
(* Unsigned comparison on two's-complement readings *)
ULt(a, b) ==
    IF a >= 0 /\ b >= 0 THEN a < b
    ELSE IF a < 0 /\ b < 0 THEN a < b
    ELSE b < 0

ULe(a, b) == a = b \/ ULt(a, b)
UGt(a, b) == ULt(b, a)
UGe(a, b) == ULe(b, a)

RECURSIVE SeqsUpTo(_, _)
SeqsUpTo(S, n) ==
    IF n = 0 THEN { <<>> }
    ELSE LET shorter == SeqsUpTo(S, n - 1)
         IN  shorter \cup { Append(q, x) : q \in { r \in shorter : Len(r) = n - 1 }, x \in S }

(* size_t(-1), the error value of both decompressors *)
ErrorValue == -1

-----------------------------------------------------------------------------
(* Byte-order helpers: ReadBeU16, SwapU16, SwapU32 *)

Pow2(n) == 2 ^ n

\* the two bytes at 0-based offset k of buf, read as a big-endian uint16
BeU16At(buf, k) == buf[k + 1] * 256 + buf[k + 2]

\* the four bytes at 0-based offset k, read as a big-endian uint32
\* (two's-complement reading when the top bit is set)
BeU32At(buf, k) ==
    (IF buf[k + 1] >= 128 THEN buf[k + 1] - 256 ELSE buf[k + 1]) * 16777216
      + buf[k + 2] * 65536 + buf[k + 3] * 256 + buf[k + 4]

\* SwapU16 / SwapU32 applied in place to the field at offset k
SwapU16At(buf, k) == [ buf EXCEPT ![k + 1] = buf[k + 2], ![k + 2] = buf[k + 1] ]
SwapU32At(buf, k) ==
    [ buf EXCEPT ![k + 1] = buf[k + 4], ![k + 2] = buf[k + 3],
                 ![k + 3] = buf[k + 2], ![k + 4] = buf[k + 1] ]

\* the field at offset k as the host (little-endian) reads it
LeU16At(buf, k) == buf[k + 2] * 256 + buf[k + 1]
LeU32At(buf, k) ==
    (IF buf[k + 4] >= 128 THEN buf[k + 4] - 256 ELSE buf[k + 4]) * 16777216
      + buf[k + 3] * 65536 + buf[k + 2] * 256 + buf[k + 1]

\* n bytes of buf from 0-based offset k
Slice(buf, k, n) == SubSeq(buf, k + 1, k + n)

\* strncmp(lit, field, Len(lit)) == 0 for a literal without NUL
TagAt(buf, k, lit) == k + Len(lit) <= Len(buf) /\ Slice(buf, k, Len(lit)) = lit

-----------------------------------------------------------------------------
(* The PalmDB framing: PdbHeader, PdbRecordHeader *)

kPdbHeaderLen == 78
kPdbRecordHeaderLen == 8
PdbTypeOffset == 60
PdbNumRecordsOffset == 76

MOBI_TYPE_CREATOR == <<66, 79, 79, 75, 77, 79, 66, 73>>
PALMDOC_TYPE_CREATOR == <<84, 69, 88, 116, 82, 69, 65, 100>>

IsMobiPdb(hdr) == Slice(hdr, PdbTypeOffset, 8) = MOBI_TYPE_CREATOR
IsPalmDocPdb(hdr) == Slice(hdr, PdbTypeOffset, 8) = PALMDOC_TYPE_CREATOR

\* filesize(fileName)
filesize(f) == Len(f)

-----------------------------------------------------------------------------
(* MobiBook *)

NULL == <<>>

\* MobiBook::MobiBook()
NewMobiBook ==
    [ numRecords |-> 0, recHeaders |-> NULL, firstRecData |-> NULL,
      isMobi |-> FALSE, docRecCount |-> 0, compressionType |-> 0,
      docUncompressedSize |-> 0, doc |-> <<>>,
      multibyte |-> FALSE, trailersCount |-> 0,
      imageFirstRec |-> 0, imagesCount |-> 0, images |-> NULL,
      coverImage |-> -1, hasHuffDic |-> FALSE,
      title |-> <<>>, author |-> <<>>, publisher |-> <<>> ]

\* exth is history: the EXTH records dispatched so far, as [type, payload]
\* with payload the len - 8 bytes that follow the record's 8-byte header;
\* palmDoc is history: the PalmDOC header fields as parseHeader read them;
\* imageReadFailed is history: readRecord returned NULL to loadImage
NewParseHeader ==
    [ i |-> 0, recLeft |-> 0, currRecPos |-> 0, recCount |-> 0, cdic |-> 0,
      oobRecord0 |-> FALSE, fullName |-> <<>>, exth |-> <<>>,
      palmDoc |-> [ seen |-> FALSE, encrType |-> 0, compressionType |-> 0 ],
      imageReadFailed |-> FALSE ]

\* parseHeader returns
PhReturn(ok) == pc' = IF ok THEN "ph_true" ELSE "ph_false"

\* lines 520-556: the PalmDB header, the record headers and the sentinel
ParseHeaderReadPdb ==
    /\ pc = "ph_start"
    /\ UNCHANGED <<ndebug, file, li, ld, api, readLog, huffVars, pu, ex>>
    /\ IF Len(file) < kPdbHeaderLen
       THEN PhReturn(FALSE) /\ UNCHANGED <<mb, ph>>
       ELSE LET hdr == Slice(file, 0, kPdbHeaderLen)
                numRecords == BeU16At(hdr, PdbNumRecordsOffset)
                avail == (Len(file) - kPdbHeaderLen) \div kPdbRecordHeaderLen
                offs == [ k \in 1..numRecords |->
                            BeU32At(file, kPdbHeaderLen + (k - 1) * kPdbRecordHeaderLen) ]
            IN
            IF ~IsMobiPdb(hdr) /\ ~IsPalmDocPdb(hdr)
            THEN PhReturn(FALSE) /\ UNCHANGED <<mb, ph>>
            ELSE IF numRecords < 1
            THEN PhReturn(FALSE) /\ UNCHANGED ph
                 /\ mb' = [ mb EXCEPT !.isMobi = IsMobiPdb(hdr), !.numRecords = numRecords ]
            ELSE IF avail < numRecords
            THEN PhReturn(FALSE) /\ UNCHANGED ph
                 /\ mb' = [ mb EXCEPT !.isMobi = IsMobiPdb(hdr), !.numRecords = numRecords ]
            ELSE /\ mb' = [ mb EXCEPT !.isMobi = IsMobiPdb(hdr),
                                      !.numRecords = numRecords,
                                      !.recHeaders = Append(offs, filesize(file)) ]
                 /\ ph' = [ ph EXCEPT !.i = 0 ]
                 /\ pc' = "ph_validate"

ValidatedPairsMutant(numRecords) == numRecords - 1
\* line 558: how many adjacent pairs the validation loop visits, the last
\* one being the pair formed with the sentinel
ValidatedPairs(numRecords) == numRecords

\* lines 557-565: one turn of the loop that validates the offsets
ParseHeaderValidateOffsets ==
    /\ pc = "ph_validate"
    /\ UNCHANGED <<ndebug, file, mb, li, ld, api, readLog, huffVars, pu, ex>>
    /\ IF ph.i >= ValidatedPairs(mb.numRecords)
       THEN pc' = "ph_rec0" /\ UNCHANGED ph
       ELSE IF ULt(mb.recHeaders[ph.i + 2], mb.recHeaders[ph.i + 1])
       THEN PhReturn(FALSE) /\ UNCHANGED ph
       ELSE pc' = "ph_validate" /\ ph' = [ ph EXCEPT !.i = @ + 1 ]

\* the bytes of buf followed by as many bytes g as it takes to reach n bytes:
\* what the memory at and after buf reads as when the heap after it holds g
Pad(buf, n, g) ==
    IF Len(buf) >= n THEN buf
    ELSE buf \o [ k \in 1..(n - Len(buf)) |-> g ]

\* the garbage an action has to choose from when it reads out of bounds
GarbageFor(oob) == IF oob THEN GarbageBytes ELSE {0}

RECURSIVE SwapAll32(_, _, _)
SwapAll32(buf, base, offs) ==
    IF offs = <<>> THEN buf
    ELSE SwapAll32(SwapU32At(buf, base + Head(offs)), base, Tail(offs))

RECURSIVE SwapAll16(_, _, _)
SwapAll16(buf, base, offs) ==
    IF offs = <<>> THEN buf
    ELSE SwapAll16(SwapU16At(buf, base + Head(offs)), base, Tail(offs))

\* MobiBook::getRecordSize; recNo indexes a table of numRecords + 1 entries
getRecordSize(m, recNo) == m.recHeaders[recNo + 2] - m.recHeaders[recNo + 1]

\* what a read of a record outside the table may return
GarbageRecords == { <<>>, <<0>>, <<65, 66>> }

\* MobiBook::readRecord: the set of possible results [buf, sizeOut, ok].
\* A recNo >= numRecords indexes recHeaders out of bounds.
readRecord(f, m, recNo) ==
    IF recNo >= 0 /\ recNo < m.numRecords
    THEN LET off == m.recHeaders[recNo + 1]
             toRead == getRecordSize(m, recNo)
         IN IF toRead = 0
            THEN { [ ok |-> TRUE, buf |-> <<>>, sizeOut |-> 0 ] }
            ELSE IF off >= 0 /\ toRead > 0 /\ off + toRead <= Len(f)
            THEN { [ ok |-> TRUE, buf |-> Slice(f, off, toRead), sizeOut |-> toRead ] }
            ELSE { [ ok |-> FALSE, buf |-> NULL, sizeOut |-> toRead ] }
    ELSE { [ ok |-> FALSE, buf |-> NULL, sizeOut |-> 0 ] }
           \cup { [ ok |-> TRUE, buf |-> r, sizeOut |-> Len(r) ] : r \in GarbageRecords }

kPalmDocHeaderLen == 16
PalmDocHeaderOff ==
    [ compressionType |-> 0, uncompressedDocSize |-> 4, recordsCount |-> 8,
      maxRecSize |-> 10, encrType |-> 12 ]

COMPRESSION_NONE == 1
COMPRESSION_PALM == 2
COMPRESSION_HUFF == 17480
ENCRYPTION_NONE == 0

EncryptionRefusedMutant(isMobi, encrType) == FALSE
\* lines 591-598: the test that refuses an encrypted book
EncryptionRefused(isMobi, encrType) == isMobi /\ encrType # ENCRYPTION_NONE

IsValidCompression(comprType) ==
    comprType = COMPRESSION_NONE \/ comprType = COMPRESSION_PALM
      \/ comprType = COMPRESSION_HUFF

\* lines 567-610: record 0 and its PalmDOC header
ParseHeaderPalmDoc ==
    /\ pc = "ph_rec0"
    /\ UNCHANGED <<ndebug, file, li, ld, api, huffVars, pu, ex>>
    /\ readLog' = Append(readLog, 0)
    /\ \E r \in readRecord(file, mb, 0) :
         IF ~r.ok
         THEN PhReturn(FALSE) /\ UNCHANGED <<mb, ph>>
         ELSE \E g \in GarbageFor(r.sizeOut < kPalmDocHeaderLen),
                 mallocOk \in (IF r.sizeOut = 0 THEN BOOLEAN ELSE {TRUE}) :
           IF ~mallocOk
           THEN PhReturn(FALSE) /\ UNCHANGED <<mb, ph>>
           ELSE
           LET P0 == Pad(r.buf, kPalmDocHeaderLen, g)
               P1 == SwapU16At(SwapU16At(SwapU32At(SwapU16At(P0,
                        PalmDocHeaderOff.compressionType),
                        PalmDocHeaderOff.uncompressedDocSize),
                        PalmDocHeaderOff.recordsCount),
                        PalmDocHeaderOff.maxRecSize)
               compressionType == LeU16At(P1, PalmDocHeaderOff.compressionType)
               encrType == LeU16At(P1, PalmDocHeaderOff.encrType)
               recLeft == r.sizeOut - kPalmDocHeaderLen
               m1 == [ mb EXCEPT !.firstRecData = Slice(P1, 0, r.sizeOut) ]
               m2 == [ m1 EXCEPT
                         !.docRecCount = LeU16At(P1, PalmDocHeaderOff.recordsCount),
                         !.docUncompressedSize = LeU32At(P1, PalmDocHeaderOff.uncompressedDocSize),
                         !.compressionType = compressionType ]
               p1 == [ ph EXCEPT !.recLeft = recLeft, !.currRecPos = kPalmDocHeaderLen,
                                 !.oobRecord0 = r.sizeOut < kPalmDocHeaderLen,
                                 !.palmDoc = [ seen |-> TRUE, encrType |-> encrType,
                                               compressionType |-> compressionType ] ]
           IN
           IF ~IsValidCompression(compressionType)
           THEN PhReturn(FALSE) /\ mb' = m1 /\ ph' = p1
           ELSE IF EncryptionRefused(mb.isMobi, encrType)
           THEN PhReturn(FALSE) /\ mb' = m1 /\ ph' = p1
           ELSE IF recLeft = 0
           THEN /\ mb' = m2 /\ ph' = p1
                /\ IF mb.isMobi /\ ~ndebug THEN pc' = "abort" ELSE PhReturn(TRUE)
           ELSE IF ULt(recLeft, 8)
           THEN PhReturn(FALSE) /\ mb' = m2 /\ ph' = p1
           ELSE mb' = m2 /\ ph' = p1 /\ pc' = "ph_mobi"

kMobiHeaderLen == 232
MobiHeaderOff ==
    [ id |-> 0, hdrLen |-> 4, type |-> 8, textEncoding |-> 12,
      mobiFormatVersion |-> 20, firstNonBookRec |-> 64,
      fullNameOffset |-> 68, fullNameLen |-> 72, locale |-> 76,
      minRequiredMobiFormatVersion |-> 88, imageFirstRec |-> 92,
      huffmanFirstRec |-> 96, huffmanRecCount |-> 100,
      huffmanTableOffset |-> 104, huffmanTableLen |-> 108, exhtFlags |-> 112,
      firstContentRecord |-> 176, lastContentRecord |-> 178,
      extraDataFlags |-> 226 ]

\* the fields parseHeader byte-swaps, in the order of lines 617-633
MobiSwapped32 ==
    << MobiHeaderOff.hdrLen, MobiHeaderOff.type, MobiHeaderOff.textEncoding,
       MobiHeaderOff.mobiFormatVersion, MobiHeaderOff.firstNonBookRec,
       MobiHeaderOff.fullNameOffset, MobiHeaderOff.fullNameLen, MobiHeaderOff.locale,
       MobiHeaderOff.minRequiredMobiFormatVersion, MobiHeaderOff.imageFirstRec,
       MobiHeaderOff.huffmanFirstRec, MobiHeaderOff.huffmanRecCount,
       MobiHeaderOff.huffmanTableOffset, MobiHeaderOff.huffmanTableLen,
       MobiHeaderOff.exhtFlags >>
MobiSwapped16 == << MobiHeaderOff.firstContentRecord, MobiHeaderOff.lastContentRecord >>

Tag_MOBI == <<77, 79, 66, 73>>
Tag_EXTH == <<69, 88, 84, 72>>

\* how far past the end of a heap block a read runs before the process dies
MaxOverread == 4

\* std::string(buf + k, n): the bytes, or <<-1>> when the read leaves the
\* block by more than MaxOverread bytes
ReadRange(buf, k, n, g) ==
    IF n = 0 THEN <<>>
    ELSE IF k < 0 \/ n < 0 \/ k + n > Len(buf) + MaxOverread THEN <<-1>>
    ELSE Slice(Pad(buf, k + n, g), k, n)

\* bit k of a 32-bit value
Bit(v, k) == (v \div Pow2(k)) % 2

\* while (flags > 1) { if (flags & 2) trailersCount++; flags >>= 1; }
RECURSIVE CountTrailers(_)
CountTrailers(flags) ==
    IF flags <= 1 THEN 0
    ELSE Bit(flags, 1) + CountTrailers(flags \div 2)

\* lines 612-667: the MOBI header
ParseHeaderMobi ==
    /\ pc = "ph_mobi"
    /\ UNCHANGED <<ndebug, file, li, ld, api, readLog, huffVars, pu, ex>>
    /\ LET base == ph.currRecPos
           size == Len(mb.firstRecData)
           extent == base + MobiHeaderOff.extraDataFlags + 2
       IN \E g \in GarbageFor(size < extent) :
          LET P0 == Pad(mb.firstRecData, extent, g)
              P1 == SwapAll16(SwapAll32(P0, base, MobiSwapped32), base, MobiSwapped16)
              F32(o) == LeU32At(P1, base + o)
              F16(o) == LeU16At(P1, base + o)
              imageFirstRec == F32(MobiHeaderOff.imageFirstRec)
              inTable == UGt(mb.numRecords, imageFirstRec)
              imagesCount ==
                  IF ~inTable THEN mb.imagesCount
                  ELSE IF imageFirstRec = 0 THEN 0
                  ELSE F16(MobiHeaderOff.lastContentRecord) - imageFirstRec + 1
              name == ReadRange(P1, F32(MobiHeaderOff.fullNameOffset),
                                F32(MobiHeaderOff.fullNameLen), g)
              hdrLen == F32(MobiHeaderOff.hdrLen)
              hasExtraFlags == UGe(hdrLen, 228)
              P2 == IF hasExtraFlags
                    THEN SwapU16At(P1, base + MobiHeaderOff.extraDataFlags) ELSE P1
              flags == LeU16At(P2, base + MobiHeaderOff.extraDataFlags)
              m1 == [ mb EXCEPT !.firstRecData = Slice(P1, 0, size),
                                !.title = mb.title \o name,
                                !.imageFirstRec = IF inTable THEN imageFirstRec ELSE @,
                                !.imagesCount = imagesCount ]
              m2 == [ m1 EXCEPT !.firstRecData = Slice(P2, 0, size),
                                !.multibyte = IF hasExtraFlags THEN flags % 2 = 1 ELSE @,
                                !.trailersCount =
                                    IF hasExtraFlags THEN @ + CountTrailers(flags) ELSE @ ]
              p2 == [ ph EXCEPT !.currRecPos = base + hdrLen, !.recLeft = @ - hdrLen,
                                !.fullName = name ]
          IN
          IF Slice(P0, base, 4) # Tag_MOBI
          THEN PhReturn(FALSE) /\ UNCHANGED <<mb, ph>>
          ELSE IF name = <<-1>>
          THEN pc' = "crash" /\ mb' = [ mb EXCEPT !.firstRecData = Slice(P1, 0, size) ]
               /\ UNCHANGED ph
          ELSE IF UGt(hdrLen, ph.recLeft)
          THEN PhReturn(FALSE) /\ mb' = m1 /\ UNCHANGED ph
          ELSE /\ mb' = m2 /\ ph' = p2
               /\ pc' = IF Bit(F32(MobiHeaderOff.exhtFlags), 6) = 1
                        THEN "ph_exth" ELSE "ph_huff"

kExthHeaderLen == 12
ExthRecordOff == [ type |-> 0, len |-> 4, data |-> 8 ]

\* the memory at and after a heap block: MaxOverread bytes g, then a NUL
HeapAfter(buf, g) == buf \o [ k \in 1..MaxOverread |-> g ] \o <<0>>

\* the C string that starts at 0-based offset k of mem (mem holds a NUL at or after k)
RECURSIVE CStringAt(_, _)
CStringAt(mem, k) ==
    IF k >= Len(mem) \/ mem[k + 1] = 0 THEN <<>>
    ELSE <<mem[k + 1]>> \o CStringAt(mem, k + 1)

\* lines 669-679: the EXTH header
ParseHeaderExth ==
    /\ pc = "ph_exth"
    /\ UNCHANGED <<ndebug, file, li, ld, api, readLog, huffVars, pu, ex>>
    /\ LET pos == ph.currRecPos
           size == Len(mb.firstRecData)
       IN \E g \in GarbageFor(size < pos + kExthHeaderLen) :
          LET P0 == Pad(mb.firstRecData, pos + kExthHeaderLen, g)
              P1 == SwapU32At(SwapU32At(P0, pos + 4), pos + 8)
          IN IF Slice(P0, pos, 4) # Tag_EXTH
             THEN PhReturn(FALSE) /\ UNCHANGED <<mb, ph>>
             ELSE /\ mb' = [ mb EXCEPT !.firstRecData = Slice(P1, 0, size) ]
                  /\ ph' = [ ph EXCEPT !.currRecPos = pos + kExthHeaderLen,
                                       !.recCount = LeU32At(P1, pos + 8),
                                       !.i = 0 ]
                  /\ pc' = "ph_exth_rec"

\* lines 682-707: one turn of the loop over the EXTH records
ParseHeaderExthRecord ==
    /\ pc = "ph_exth_rec"
    /\ UNCHANGED <<ndebug, file, li, ld, api, readLog, huffVars, pu, ex>>
    /\ IF ~ULt(ph.i, ph.recCount)
       THEN pc' = "ph_huff" /\ UNCHANGED <<mb, ph>>
       ELSE LET pos == ph.currRecPos
                size == Len(mb.firstRecData)
            IN
            IF pos < 0 \/ pos + ExthRecordOff.data > size + MaxOverread
            THEN pc' = "crash" /\ UNCHANGED <<mb, ph>>
            ELSE \E g \in GarbageFor(size < pos + ExthRecordOff.data + 4) :
              LET P0 == Pad(HeapAfter(mb.firstRecData, g), pos + ExthRecordOff.data + 4, g)
                  P1 == SwapU32At(SwapU32At(P0, pos + ExthRecordOff.len),
                                  pos + ExthRecordOff.type)
                  type == LeU32At(P1, pos + ExthRecordOff.type)
                  len == LeU32At(P1, pos + ExthRecordOff.len)
                  str == CStringAt(P1, pos + ExthRecordOff.data)
                  payload == IF len >= ExthRecordOff.data
                             THEN ReadRange(P1, pos + ExthRecordOff.data,
                                            len - ExthRecordOff.data, g)
                             ELSE <<>>
                  m1 == [ mb EXCEPT !.firstRecData = Slice(P1, 0, size) ]
                  m2 == CASE type = 100 -> [ m1 EXCEPT !.author = @ \o str ]
                          [] type = 101 -> [ m1 EXCEPT !.publisher = @ \o str ]
                          [] type = 201 -> [ m1 EXCEPT !.coverImage =
                                                 BeU32At(P1, pos + ExthRecordOff.data) ]
                          [] type = 503 -> [ m1 EXCEPT !.title = str ]
                          [] OTHER -> m1
              IN /\ mb' = m2
                 /\ ph' = [ ph EXCEPT !.currRecPos = pos + len, !.i = @ + 1,
                                      !.exth = Append(@, [ type |-> type, payload |-> payload ]) ]
                 /\ pc' = "ph_exth_rec"

-----------------------------------------------------------------------------
(* 32-bit unsigned arithmetic on two's-complement readings *)

\* v >> k for a uint32 v; the hardware takes the shift count modulo 32
ShrU32(v, k) ==
    LET n == k % 32
    IN IF n = 0 THEN v
       ELSE IF v >= 0 THEN v \div Pow2(n)
       ELSE Pow2(31 - n) + (Pow2(31 - n) + (v \div Pow2(n)))

\* v & ((1 << k) - 1) for a uint32 v
LowBits(v, k) ==
    LET n == k % 32
    IN IF n = 31 THEN (IF v >= 0 THEN v ELSE (v + Pow2(30)) + Pow2(30))
       ELSE v % Pow2(n)

\* (uint32)(1 << k)
ShlOne(k) ==
    LET n == k % 32
    IN IF n = 31 THEN (0 - Pow2(30)) - Pow2(30) ELSE Pow2(n)

-----------------------------------------------------------------------------
(* HuffDicDecompressor: the object and its configuration *)

kHuffHeaderLen == 24
kCdicHeaderLen == 16
kCacheDataLen == 1024
kBaseTableDataLen == 256
kHuffRecordMinLen == kHuffHeaderLen + kCacheDataLen + kBaseTableDataLen
kHuffRecordLen == kHuffHeaderLen + 2 * kCacheDataLen + 2 * kBaseTableDataLen
kCdicsMax == 32

Tag_HUFF == <<72, 85, 70, 70>>
Tag_CDIC == <<67, 68, 73, 67>>

\* HuffDicDecompressor::HuffDicDecompressor(); a dictionary is [null, bytes]
NewHuffDic ==
    [ cacheTable |-> <<>>, baseTable |-> <<>>,
      dictsCount |-> 0, dicts |-> <<>>, dictSize |-> <<>>, code_length |-> 0 ]

\* !strncmp(tag, id, 4): TRUE when the record begins with the tag
StrncmpIsZero(tag, data) == Len(data) >= 4 /\ Slice(data, 0, 4) = tag

\* the test of lines 428 and 462 that makes the record be refused
TagRefused(tag, data) == StrncmpIsZero(tag, data)

\* HuffDicDecompressor::SetHuffData: [st, hd] with st "ok", "fail" or "abort"
SetHuffData(h, huffData, huffDataLen, nd) ==
    IF ~nd /\ huffDataLen # kHuffRecordLen THEN [ st |-> "abort", hd |-> h ]
    ELSE IF ULt(huffDataLen, kHuffRecordMinLen) THEN [ st |-> "fail", hd |-> h ]
    ELSE LET hdrLen == BeU32At(huffData, 4)
             cacheOffset == BeU32At(huffData, 8)
             baseTableOffset == BeU32At(huffData, 12)
         IN IF TagRefused(Tag_HUFF, huffData) THEN [ st |-> "fail", hd |-> h ]
            ELSE IF hdrLen # kHuffHeaderLen
            THEN [ st |-> IF nd THEN "fail" ELSE "abort", hd |-> h ]
            ELSE IF cacheOffset # kHuffHeaderLen THEN [ st |-> "fail", hd |-> h ]
            ELSE IF baseTableOffset # cacheOffset + kCacheDataLen
            THEN [ st |-> "fail", hd |-> h ]
            ELSE [ st |-> "ok",
                   hd |-> [ h EXCEPT
                     !.cacheTable = [ k \in 1..256 |->
                                        BeU32At(huffData, cacheOffset + 4 * (k - 1)) ],
                     !.baseTable = [ k \in 1..64 |->
                                        BeU32At(huffData, baseTableOffset + 4 * (k - 1)) ] ] ]

\* HuffDicDecompressor::AddCdicData; g is what a header byte outside the
\* record reads as
AddCdicData(h, cdicData, cdicDataLen, nd, g) ==
    LET P == Pad(cdicData, kCdicHeaderLen, g)
        hdrLen == BeU32At(P, 4)
        codeLen == BeU32At(P, 12)
        h1 == [ h EXCEPT !.code_length = codeLen ]
        size == cdicDataLen - hdrLen
        maxSize == ShlOne(codeLen)
    IN IF ~nd /\ ~(h.code_length = 0 \/ codeLen = h.code_length)
       THEN [ st |-> "abort", hd |-> h ]
       ELSE IF TagRefused(Tag_CDIC, P) THEN [ st |-> "fail", hd |-> h1 ]
       ELSE IF hdrLen # kCdicHeaderLen
       THEN [ st |-> IF nd THEN "fail" ELSE "abort", hd |-> h1 ]
       ELSE IF UGe(maxSize, size) THEN [ st |-> "fail", hd |-> h1 ]
       ELSE [ st |-> "ok",
              hd |-> [ h1 EXCEPT
                !.dicts = Append(@, IF size < 0 \/ size > Len(cdicData)
                                    THEN [ null |-> TRUE, bytes |-> <<>> ]
                                    ELSE [ null |-> FALSE,
                                           bytes |-> Slice(cdicData, kCdicHeaderLen, size) ]),
                !.dictSize = Append(@, size),
                !.dictsCount = @ + 1 ] ]

-----------------------------------------------------------------------------
(* HuffDicDecompressor::Decompress and DecodeOne *)

\* (a - b) of two uint32, computed on 16-bit halves
SubU32(a, b) ==
    LET lo == (a % 65536) - (b % 65536)
        borrow == IF lo < 0 THEN 1 ELSE 0
        hi == ((a \div 65536) - (b \div 65536) - borrow) % 65536
    IN (IF hi >= 32768 THEN hi - 65536 ELSE hi) * 65536 + (lo + borrow * 65536)

\* one activation of Decompress: src is the slice [base, base + srcSize) of
\* buffer buf (-1: the caller's input, d >= 0: dicts[d]); pos is the cursor
\* of its BitReader
HuffFrame(buf, base, srcSize, dstSize) ==
    [ buf |-> buf, base |-> base, srcSize |-> srcSize, pos |-> 0,
      bitsConsumed |-> 0, dstSize |-> dstSize, dstLeft |-> dstSize ]

\* a call Decompress(src, srcSize, dst, dstSize) from outside; out is the
\* bytes written to dst; the flags and maxDepth are history
HuffEnter(src, srcSize, dstSize) ==
    [ src |-> src, dstSize |-> dstSize, out |-> <<>>, res |-> 0,
      stack |-> << HuffFrame(-1, 0, srcSize, dstSize) >>,
      badDict |-> FALSE, oobRead |-> FALSE, noRoom |-> FALSE, maxDepth |-> 1 ]

HuffIdle == [ HuffEnter(<<>>, 0, 0) EXCEPT !.stack = <<>>, !.maxDepth = 0 ]

\* the bytes of buffer b that are really there
HuffBytes(h, st, b) ==
    IF b = -1 THEN st.src
    ELSE IF b < h.dictsCount /\ ~h.dicts[b + 1].null THEN h.dicts[b + 1].bytes
    ELSE <<>>

\* the memory that can be read at buffer b: a NULL dictionary has none
HuffMem(h, st, b, g) ==
    IF b >= 0 /\ b < h.dictsCount /\ h.dicts[b + 1].null THEN <<>>
    ELSE HuffBytes(h, st, b) \o [ k \in 1..MaxOverread |-> g ]

\* dictSize[d]; dictSize[dictsCount] was never written
GarbageDictSize == 0
HuffDictSize(h, d) == IF d < h.dictsCount THEN h.dictSize[d + 1] ELSE GarbageDictSize

\* BitReader (src/BitReader.h is not part of the sources: after the design
\* document, section 4.2)
BitsLeft(f) == 8 * f.srcSize - f.pos

BitAt(f, mem, q) ==
    IF q >= 8 * f.srcSize THEN 0
    ELSE Bit(mem[f.base + (q \div 8) + 1], 7 - (q % 8))

RECURSIVE PeekPlain(_, _, _, _)
PeekPlain(f, mem, q, n) ==
    IF n = 0 THEN 0
    ELSE PeekPlain(f, mem, q, n - 1) * 2 + BitAt(f, mem, q + n - 1)

\* br.Peek(32) >> (32 - n), for n in 1..32
Peek(f, mem, n) ==
    IF n = 32
    THEN IF BitAt(f, mem, f.pos) = 1
         THEN (PeekPlain(f, mem, f.pos + 1, 31) - Pow2(30)) - Pow2(30)
         ELSE PeekPlain(f, mem, f.pos + 1, 31)
    ELSE PeekPlain(f, mem, f.pos, n)

\* the byte indices of the slice that Peek(32) reads
PeekedBytes(f) ==
    { i \in (f.pos \div 8)..((f.pos + 31) \div 8) : i < f.srcSize }

\* baseTable[k]; k = 64 lies behind the table
BaseEntry(h, k, g) == IF k < 64 THEN h.baseTable[k + 1] ELSE g * 16843009

\* the do-while of lines 392-400, entered with codeLen already decremented
RECURSIVE BaseScan(_, _, _, _, _)
BaseScan(h, f, mem, g, codeLen) ==
    LET baseVal == BaseEntry(h, codeLen * 2, g)
        code == IF codeLen + 1 <= 32 THEN Peek(f, mem, codeLen + 1)
                ELSE BitAt(f, mem, f.pos)
    IN IF codeLen + 1 > 32 THEN [ err |-> TRUE, codeLen |-> codeLen + 1 ]
       ELSE IF UGt(baseVal, code) THEN BaseScan(h, f, mem, g, codeLen + 1)
       ELSE [ err |-> FALSE, codeLen |-> codeLen + 1 ]

\* lines 378-402: from the peeked bits to the code; [err, code, codeLen]
HuffCode(h, f, mem, g) ==
    LET v == h.cacheTable[Peek(f, mem, 8) + 1]
        codeLen == LowBits(v, 5)
    IN IF codeLen = 0 THEN [ err |-> TRUE, code |-> 0, codeLen |-> 0 ]
       ELSE IF Bit(v, 7) = 1
       THEN [ err |-> FALSE, codeLen |-> codeLen,
              code |-> SubU32(ShrU32(v, 8), Peek(f, mem, codeLen)) ]
       ELSE LET sc == BaseScan(h, f, mem, g, codeLen - 1)
            IN IF sc.err THEN [ err |-> TRUE, code |-> 0, codeLen |-> sc.codeLen ]
               ELSE [ err |-> FALSE, codeLen |-> sc.codeLen,
                      code |-> SubU32(BaseEntry(h, 1 + (sc.codeLen - 1) * 2, g),
                                      Peek(f, mem, sc.codeLen)) ]

\* line 320: the test that lets a dictionary index through
DictAccepted(dict, dictsCount) == ~(dict > dictsCount)

\* line 327: the test that lets an offset through
OffsetAccepted(offset, size) == ~UGt(offset, size)

\* line 347: the test that lets a verbatim symbol through
SymbolFitsMutant(symLen, dstLeft) == TRUE
SymbolFits(symLen, dstLeft) == ~UGt(symLen, dstLeft)

\* DecodeOne up to the point where it copies or recurses:
\* kind "fail" (return false), "crash", "copy" (memcpy of sym) or
\* "call" (Decompress(p, symLen, dst, dstLeft)); noRoom: the failure is
\* the one of line 347
DecodeOne(h, st, code, dstLeft, g) ==
    LET dict == ShrU32(code, h.code_length) % 65536
        idx == LowBits(code, h.code_length)
        mem == HuffMem(h, st, dict, g)
        real == Len(HuffBytes(h, st, dict))
        offset == BeU16At(mem, idx * 2)
        symLen == BeU16At(mem, offset)
        p == offset + 2
        base == [ kind |-> "fail", dict |-> dict, reads |-> {}, p |-> 0, symLen |-> 0,
                  noRoom |-> FALSE ]
    IN IF ~DictAccepted(dict, h.dictsCount) THEN base
       ELSE IF idx * 2 + 2 > Len(mem)
       THEN [ base EXCEPT !.kind = "crash", !.reads = { idx * 2, idx * 2 + 1 } ]
       ELSE IF ~OffsetAccepted(offset, HuffDictSize(h, dict))
       THEN [ base EXCEPT !.reads = { idx * 2, idx * 2 + 1 } ]
       ELSE IF offset + 2 > Len(mem)
       THEN [ base EXCEPT !.kind = "crash",
                          !.reads = { idx * 2, idx * 2 + 1, offset, offset + 1 } ]
       ELSE LET hdr == { idx * 2, idx * 2 + 1, offset, offset + 1 }
            IN IF symLen < 32768
               THEN [ kind |-> "call", dict |-> dict, reads |-> hdr,
                      p |-> p, symLen |-> symLen, noRoom |-> FALSE ]
               ELSE LET n == symLen - 32768
                    IN IF n > 127 THEN [ base EXCEPT !.reads = hdr ]
                       ELSE IF ~SymbolFits(n, dstLeft)
                       THEN [ base EXCEPT !.reads = hdr, !.noRoom = TRUE ]
                       ELSE IF p + n > Len(mem)
                       THEN [ base EXCEPT !.kind = "crash", !.reads = hdr ]
                       ELSE [ kind |-> "copy", dict |-> dict,
                              reads |-> hdr \cup { p + k : k \in 0..(n - 1) },
                              p |-> p, symLen |-> n, noRoom |-> FALSE ]

\* Decompress returns -1, and so does every caller up to the outermost
HuffFail(st) == [ st EXCEPT !.res = ErrorValue, !.stack = <<>> ]

\* one turn of the for (;;) of the innermost activation of Decompress,
\* DecodeOne included; a return hands dstSize - dstLeft to the caller
HuffStep ==
    /\ pc = "hd_loop"
    /\ hs.stack # <<>>
    /\ UNCHANGED <<ndebug, bookVars, hd, pu, ex>>
    /\ \E g \in GarbageBytes :
       LET depth == Len(hs.stack)
           f == hs.stack[depth]
           mem == HuffMem(hd, hs, f.buf, g)
           real == Len(HuffBytes(hd, hs, f.buf))
           below == SubSeq(hs.stack, 1, depth - 1)
           Return(fr, st) ==
               LET res == fr.dstSize - fr.dstLeft
               IN IF depth = 1
                  THEN hs' = [ st EXCEPT !.res = res, !.stack = <<>> ] /\ pc' = "hd_ret"
                  ELSE LET parent == hs.stack[depth - 1]
                       IN IF ~ndebug /\ ~UGe(parent.dstLeft, res)
                          THEN hs' = st /\ pc' = "abort"
                          ELSE /\ hs' = [ st EXCEPT !.stack =
                                            SubSeq(hs.stack, 1, depth - 2)
                                              \o << [ parent EXCEPT !.dstLeft = @ - res ] >> ]
                               /\ pc' = "hd_loop"
       IN
       IF UGt(f.bitsConsumed, BitsLeft(f))
       THEN hs' = HuffFail(hs) /\ pc' = "hd_ret"
       ELSE
       LET f1 == [ f EXCEPT !.pos = @ + f.bitsConsumed ]
           peeked == { f1.base + i : i \in PeekedBytes(f1) }
           st1 == [ hs EXCEPT !.oobRead = @ \/ (f.buf >= 0 /\ \E a \in peeked : a >= real) ]
       IN
       IF BitsLeft(f1) = 0
       THEN Return(f1, hs)
       ELSE IF \E a \in peeked : a >= Len(mem)
       THEN hs' = st1 /\ pc' = "crash"
       ELSE IF BitsLeft(f1) < 8 /\ Peek(f1, mem, 32) = 0
       THEN Return(f1, st1)
       ELSE
       LET c == HuffCode(hd, f1, mem, g)
       IN
       IF c.err
       THEN hs' = HuffFail(st1) /\ pc' = "hd_ret"
       ELSE
       LET d == DecodeOne(hd, hs, c.code, f1.dstLeft, g)
           f2 == [ f1 EXCEPT !.bitsConsumed = c.codeLen ]
           dmem == HuffMem(hd, hs, d.dict, g)
           st2 == [ st1 EXCEPT
                      !.badDict = @ \/ (d.reads # {} /\ d.dict >= hd.dictsCount),
                      !.noRoom = @ \/ d.noRoom,
                      !.oobRead = @ \/ (\E a \in d.reads : a >= HuffDictSize(hd, d.dict)) ]
       IN
       \/ /\ d.reads # {} /\ d.dict >= hd.dictsCount
          /\ hs' = st2 /\ pc' = "crash"
       \/ CASE d.kind = "fail" -> hs' = HuffFail(st2) /\ pc' = "hd_ret"
            [] d.kind = "crash" -> hs' = st2 /\ pc' = "crash"
            [] d.kind = "copy" ->
                 /\ hs' = [ st2 EXCEPT
                              !.out = @ \o Slice(dmem, d.p, d.symLen),
                              !.stack = below \o << [ f2 EXCEPT !.dstLeft = @ - d.symLen ] >> ]
                 /\ pc' = "hd_loop"
            [] d.kind = "call" ->
                 IF depth >= MaxDepth
                 THEN hs' = st2 /\ pc' = "crash"
                 ELSE /\ hs' = [ st2 EXCEPT
                                   !.stack = below \o << f2,
                                       HuffFrame(d.dict, d.p, d.symLen, f2.dstLeft) >>,
                                   !.maxDepth = IF depth + 1 > @ THEN depth + 1 ELSE @ ]
                      /\ pc' = "hd_loop"

NewLoadDocument == [ i |-> 0, recData |-> <<>>, recSize |-> 0 ]

\* book: "none" until createFromFile returns, then "book" or "null";
\* fn/arg/ret: the last call of getImage or getCover, ret the slot of the
\* image returned or -1 for NULL
NoCalls == [ book |-> "none", fn |-> "", arg |-> 0, ret |-> -1 ]

\* lines 711-724: the HUFF record
ParseHeaderHuff ==
    /\ pc = "ph_huff"
    /\ UNCHANGED <<ndebug, file, li, ld, api, hs, pu, ex, ph>>
    /\ IF mb.compressionType # COMPRESSION_HUFF
       THEN pc' = "li_enter" /\ UNCHANGED <<mb, hd, readLog>>
       ELSE IF ~mb.isMobi /\ ~ndebug
       THEN pc' = "abort" /\ UNCHANGED <<mb, hd, readLog>>
       ELSE LET base == kPalmDocHeaderLen
                P == Pad(mb.firstRecData, base + MobiHeaderOff.huffmanRecCount + 4, 0)
                huffmanFirstRec == LeU32At(P, base + MobiHeaderOff.huffmanFirstRec)
                cdicsCount == LeU32At(P, base + MobiHeaderOff.huffmanRecCount) - 1
            IN /\ readLog' = Append(readLog, huffmanFirstRec)
               /\ \E r \in readRecord(file, mb, huffmanFirstRec) :
                    IF ~r.ok THEN PhReturn(FALSE) /\ UNCHANGED <<mb, hd>>
                    ELSE IF UGt(cdicsCount, kCdicsMax)
                    THEN /\ UNCHANGED <<mb, hd>>
                         /\ IF ndebug THEN PhReturn(FALSE) ELSE pc' = "abort"
                    ELSE LET res == SetHuffData(NewHuffDic, r.buf, r.sizeOut, ndebug)
                         IN /\ mb' = [ mb EXCEPT !.hasHuffDic = TRUE ]
                            /\ hd' = res.hd
                            /\ pc' = CASE res.st = "ok" -> "ph_cdic"
                                       [] res.st = "fail" -> "ph_false"
                                       [] OTHER -> "abort"

\* lines 725-731: one turn of the loop over the CDIC records
ParseHeaderCdic ==
    /\ pc = "ph_cdic"
    /\ UNCHANGED <<ndebug, file, li, ld, api, hs, pu, ex, mb>>
    /\ LET base == kPalmDocHeaderLen
           P == Pad(mb.firstRecData, base + MobiHeaderOff.huffmanRecCount + 4, 0)
           huffmanFirstRec == LeU32At(P, base + MobiHeaderOff.huffmanFirstRec)
           cdicsCount == LeU32At(P, base + MobiHeaderOff.huffmanRecCount) - 1
       IN IF ph.cdic >= cdicsCount
          THEN pc' = "li_enter" /\ UNCHANGED <<ph, hd, readLog>>
          ELSE /\ readLog' = Append(readLog, huffmanFirstRec + 1 + ph.cdic)
               /\ ph' = [ ph EXCEPT !.cdic = @ + 1 ]
               /\ \E r \in readRecord(file, mb, huffmanFirstRec + 1 + ph.cdic) :
                    IF ~r.ok THEN PhReturn(FALSE) /\ UNCHANGED hd
                    ELSE \E g \in GarbageFor(r.sizeOut < kCdicHeaderLen) :
                      LET res == AddCdicData(hd, r.buf, r.sizeOut, ndebug, g)
                      IN /\ hd' = res.hd
                         /\ pc' = CASE res.st = "ok" -> "ph_cdic"
                                    [] res.st = "fail" -> "ph_false"
                                    [] OTHER -> "abort"

-----------------------------------------------------------------------------
(* Images *)

\* the 32-bit signatures of lines 738-744, as two's-complement readings
EOF_REC == BeU32At(<<233, 142, 13, 10>>, 0)
FLIS_REC == BeU32At(<<70, 76, 73, 83>>, 0)
FCIS_REC == BeU32At(<<70, 67, 73, 83>>, 0)
FDST_REC == BeU32At(<<70, 68, 83, 84>>, 0)
DATP_REC == BeU32At(<<68, 65, 84, 80>>, 0)
SRCS_REC == BeU32At(<<83, 82, 67, 83>>, 0)
VIDE_REC == BeU32At(<<86, 73, 68, 69>>, 0)

\* GetUpToFour, for len >= 1
GetUpToFour(s, len) ==
    IF len >= 4 THEN BeU32At(s, 0)
    ELSE IF len = 3 THEN s[1] * 65536 + s[2] * 256 + s[3]
    ELSE IF len = 2 THEN s[1] * 256 + s[2]
    ELSE s[1]

IsEofRecord(data, dataLen) == 4 = dataLen /\ EOF_REC = GetUpToFour(data, dataLen)

KnownNonImageRec(data, dataLen) ==
    GetUpToFour(data, dataLen) \in
        { FLIS_REC, FCIS_REC, FDST_REC, DATP_REC, SRCS_REC, VIDE_REC }

JPG_MAGIC == <<255, 216, 255, 224>>
PNG_MAGIC == <<137, 80, 78, 71>>
GIF_MAGIC == <<71, 73, 70, 56>>

\* ImageType; g is what the bytes behind a record shorter than 4 read as
ImageType(data, g) ==
    LET first == Slice(Pad(data, 4, g), 0, 4)
    IN IF first = JPG_MAGIC THEN ".jpg"
       ELSE IF first = PNG_MAGIC THEN ".png"
       ELSE IF first = GIF_MAGIC THEN ".gif"
       ELSE ".bin"

NoImage == [ data |-> NULL, len |-> 0, type |-> "" ]

\* how many slots past the record table the scan of a wrapped imagesCount
\* is followed
MaxOverscan == 1

\* lines 813-817: loadImages up to its loop
LoadImages ==
    /\ pc = "li_enter"
    /\ UNCHANGED <<ndebug, file, ph, ld, api, readLog, huffVars, pu, ex>>
    /\ IF mb.imagesCount = 0
       THEN PhReturn(TRUE) /\ UNCHANGED <<mb, li>>
       ELSE /\ mb' = [ mb EXCEPT !.images =
                         IF mb.imagesCount > 0
                         THEN [ k \in 1..mb.imagesCount |-> NoImage ]
                         ELSE NULL ]
            /\ li' = 0
            /\ pc' = "li_loop"

\* lines 818-821 with loadImage: one turn of the loop
LoadImage ==
    /\ pc = "li_loop"
    /\ UNCHANGED <<ndebug, file, ld, api, huffVars, pu, ex>>
    /\ IF ~ULt(li, mb.imagesCount)
       THEN PhReturn(TRUE) /\ UNCHANGED <<mb, li, readLog, ph>>
       ELSE /\ li < mb.numRecords + MaxOverscan
            /\ readLog' = Append(readLog, mb.imageFirstRec + li)
            /\ \E r \in readRecord(file, mb, mb.imageFirstRec + li) :
              /\ ph' = [ ph EXCEPT !.imageReadFailed = @ \/ ~r.ok ]
              /\ IF ~r.ok \/ r.sizeOut = 0
                 THEN pc' = "li_loop" /\ li' = li + 1 /\ UNCHANGED mb
                 ELSE IF IsEofRecord(r.buf, r.sizeOut)
                 THEN PhReturn(TRUE) /\ UNCHANGED <<mb, li>>
                 ELSE IF KnownNonImageRec(r.buf, r.sizeOut)
                 THEN pc' = "li_loop" /\ li' = li + 1 /\ UNCHANGED mb
                 ELSE IF mb.images = NULL
                 THEN pc' = "crash" /\ UNCHANGED <<mb, li>>
                 ELSE \E g \in GarbageFor(r.sizeOut < 4) :
                        /\ mb' = [ mb EXCEPT !.images[li + 1] =
                                     [ data |-> r.buf, len |-> r.sizeOut,
                                       type |-> ImageType(r.buf, g) ] ]
                        /\ li' = li + 1
                        /\ pc' = "li_loop"

getImageMutant(m, imgRecIndex) ==
    IF UGt(imgRecIndex, m.imagesCount) \/ imgRecIndex < 1 THEN -1
    ELSE imgRecIndex - 1
\* MobiBook::getImage: the slot returned, or -1 for NULL
getImage(m, imgRecIndex) ==
    IF UGt(imgRecIndex, m.imagesCount) \/ imgRecIndex < 1 THEN -1
    ELSE IF m.images[imgRecIndex].data = NULL \/ m.images[imgRecIndex].len = 0 THEN -1
    ELSE imgRecIndex - 1

\* line 842: the test that makes getCover trust the EXTH cover index
CoverIndexUsed(m) == m.coverImage >= 0

\* MobiBook::getCover: the slot returned, or -1 for NULL; -2 when it
\* dereferences images == NULL. &images[0] of images == NULL is NULL.
getCover(m) ==
    IF CoverIndexUsed(m)
    THEN IF m.images = NULL /\ m.coverImage = 0 THEN -1 ELSE m.coverImage
    ELSE LET maxImageNo == IF ULt(m.imagesCount, 2) THEN m.imagesCount ELSE 2
             s0 == IF maxImageNo >= 1 /\ m.images[1].data # NULL THEN m.images[1].len ELSE 0
             s1 == IF maxImageNo >= 2 /\ m.images[2].data # NULL THEN m.images[2].len ELSE 0
         IN IF maxImageNo >= 1 /\ m.images = NULL THEN -2
            ELSE IF s0 = 0 /\ s1 = 0 THEN -1
            ELSE IF s1 > s0 THEN 1 ELSE 0

MaxRecIndex == 4

\* a caller of the returned book asks for an image
GetImage ==
    /\ pc = "done" /\ api.book = "book"
    /\ UNCHANGED <<ndebug, pc, file, mb, ph, li, ld, readLog, huffVars, pu, ex>>
    /\ \E imgRecIndex \in 0..MaxRecIndex :
         IF imgRecIndex >= 1 /\ ~UGt(imgRecIndex, mb.imagesCount) /\ mb.images = NULL
         THEN api' = [ api EXCEPT !.fn = "crash", !.arg = imgRecIndex, !.ret = -1 ]
         ELSE api' = [ api EXCEPT !.fn = "getImage", !.arg = imgRecIndex,
                                  !.ret = getImage(mb, imgRecIndex) ]

\* a caller of the returned book asks for the cover
GetCover ==
    /\ pc = "done" /\ api.book = "book"
    /\ UNCHANGED <<ndebug, pc, file, mb, ph, li, ld, readLog, huffVars, pu, ex>>
    /\ api' = IF getCover(mb) = -2
              THEN [ api EXCEPT !.fn = "crash", !.arg = 0, !.ret = -1 ]
              ELSE [ api EXCEPT !.fn = "getCover", !.arg = 0, !.ret = getCover(mb) ]

-----------------------------------------------------------------------------
(* ExtraDataSize *)

TrailerBytes == {0, 1, 3, 5, 129}

ExtraEnter(recData, recLen, trailersCount, multibyte) ==
    [ recData |-> recData, recLen |-> recLen,
      trailersCount |-> trailersCount, multibyte |-> multibyte,
      newLen |-> recLen, i |-> 0, res |-> 0,
      oobRead |-> FALSE, mono |-> TRUE ]

ExtraIdle == ExtraEnter(<<>>, 0, 0, FALSE)

\* recData[k] for a k inside the record
ExtraInBounds(e, k) == k >= 0 /\ k < Len(e.recData)

\* n = 0 if the high bit of v is set; n = (n << 7) | (v & 0x7f)
TrailerAccum(n, v) == (IF v >= 128 THEN 0 ELSE n) * 128 + (v % 128)

\* the value of n after the four bytes b[1..4]
TrailerValue(b) == TrailerAccum(TrailerAccum(TrailerAccum(TrailerAccum(0, b[1]), b[2]), b[3]), b[4])

\* newLen -= n, with the ghost fields that watch it
ExtraShrink(e, n, oob) ==
    [ e EXCEPT !.newLen = @ - n,
               !.oobRead = @ \/ oob,
               !.mono = @ /\ ULe(e.newLen - n, e.newLen) ]

\* one turn of for (i < trailersCount)
ExtraTrailer ==
    /\ pc = "eds_loop"
    /\ UNCHANGED <<ndebug, bookVars, huffVars, pu>>
    /\ IF ex.i >= ex.trailersCount
       THEN pc' = "eds_mb" /\ UNCHANGED ex
       ELSE IF ~ndebug /\ ~UGt(ex.newLen, 4)
       THEN pc' = "abort" /\ UNCHANGED ex
       ELSE \E g \in GarbageBytes :
              LET at(j) == ex.newLen - 4 + j
                  rd(j) == IF ExtraInBounds(ex, at(j)) THEN ex.recData[at(j) + 1] ELSE g
                  oob == \E j \in 0..3 : ~ExtraInBounds(ex, at(j))
                  n == TrailerValue(<<rd(0), rd(1), rd(2), rd(3)>>)
              IN IF ~ndebug /\ ~UGt(ex.newLen, n)
                 THEN pc' = "abort" /\ ex' = [ ex EXCEPT !.oobRead = @ \/ oob ]
                 ELSE pc' = "eds_loop" /\ ex' = [ ExtraShrink(ex, n, oob) EXCEPT !.i = @ + 1 ]

\* if (multibyte) ...; return recLen - newLen
ExtraMultibyte ==
    /\ pc = "eds_mb"
    /\ UNCHANGED <<ndebug, bookVars, huffVars, pu>>
    /\ IF ~ex.multibyte
       THEN pc' = "eds_ret" /\ ex' = [ ex EXCEPT !.res = ex.recLen - ex.newLen ]
       ELSE IF ex.newLen = 0
       THEN IF ndebug
            THEN pc' = "eds_ret" /\ ex' = [ ex EXCEPT !.res = ex.recLen - ex.newLen ]
            ELSE pc' = "abort" /\ UNCHANGED ex
       ELSE \E g \in GarbageBytes :
              LET k == ex.newLen - 1
                  oob == ~ExtraInBounds(ex, k)
                  v == IF oob THEN g ELSE ex.recData[k + 1]
                  n == (v % 4) + 1
                  e1 == ExtraShrink(ex, n, oob)
              IN IF ~ndebug /\ ~UGe(ex.newLen, n)
                 THEN pc' = "abort" /\ ex' = [ ex EXCEPT !.oobRead = @ \/ oob ]
                 ELSE pc' = "eds_ret" /\ ex' = [ e1 EXCEPT !.res = e1.recLen - e1.newLen ]

-----------------------------------------------------------------------------
(* PalmdocUncompress *)

PalmSrcBytes == {0, 2, 8, 11, 65, 128, 193}

\* entry: src/srcLen/dst/dstLen are the arguments, s and d the cursors src and dst;
\* mark is history: how many bytes dst held when the last back-reference began
PalmdocEnter(src, srcLen, dstLen) ==
    [ src |-> src, srcLen |-> srcLen, s |-> 0,
      dst |-> <<>>, dstLen |-> dstLen,
      c |-> 0, n |-> 0, dstBack |-> 0, mark |-> 0,
      res |-> 0,
      oobWrite |-> FALSE, oobSrcRead |-> FALSE, oobDstRead |-> FALSE ]

\* *dst++ = b
PalmWrite(p, b) ==
    [ p EXCEPT !.dst = Append(@, b),
               !.oobWrite = @ \/ Len(p.dst) >= p.dstLen ]

\* dstLeft = dstEnd - dst, as a size_t
PalmDstLeft(p) == p.dstLen - Len(p.dst)

\* (c >> 3) & 0x07ff and (c & 7) + 3 of the 16-bit pair
PalmBackOf(w) == (w \div 8) % 2048
PalmCountOfMutant(w) == w % 8
PalmCountOf(w) == (w % 8) + 3

PalmReturn(p, r) == pu' = [ p EXCEPT !.res = r ] /\ pc' = "pu_ret"

\* one turn of while (src < srcEnd), up to the inner copy loops
PalmLoop ==
    /\ pc = "pu_loop"
    /\ UNCHANGED <<ndebug, bookVars, huffVars, ex>>
    /\ IF pu.s >= pu.srcLen
       THEN \* loop exit: zero-terminate if room, return dst - dstOrig
            PalmReturn(pu, Len(pu.dst))
       ELSE LET dstLeft == PalmDstLeft(pu)
                c == pu.src[pu.s + 1]
                p1 == [ pu EXCEPT !.s = @ + 1 ]
            IN
            IF dstLeft = 0
            THEN IF ndebug THEN PalmReturn(pu, ErrorValue)
                 ELSE pc' = "abort" /\ UNCHANGED pu
            ELSE IF c >= 1 /\ c <= 8
            THEN IF ULt(dstLeft, c)
                 THEN IF ndebug THEN PalmReturn(p1, ErrorValue)
                      ELSE pc' = "abort" /\ pu' = p1
                 ELSE pu' = [ p1 EXCEPT !.c = c ] /\ pc' = "pu_lit"
            ELSE IF c < 128
            THEN IF c = 0 /\ ~ndebug
                 THEN pc' = "abort" /\ pu' = p1
                 ELSE pu' = PalmWrite(p1, c) /\ pc' = "pu_loop"
            ELSE IF c >= 192
            THEN IF ULt(dstLeft, 2)
                 THEN IF ndebug THEN PalmReturn(p1, ErrorValue)
                      ELSE pc' = "abort" /\ pu' = p1
                 ELSE pu' = PalmWrite(PalmWrite(p1, 32), c - 128) /\ pc' = "pu_loop"
            ELSE \* 128 <= c < 192
                 IF p1.s < p1.srcLen
                 THEN LET w == c * 256 + p1.src[p1.s + 1]
                          back == PalmBackOf(w)
                          n == PalmCountOf(w)
                          p2 == [ p1 EXCEPT !.s = @ + 1, !.n = n,
                                            !.dstBack = Len(p1.dst) - back,
                                            !.mark = Len(p1.dst) ]
                      IN IF ~ndebug /\ (back > Len(p1.dst) \/ ULt(dstLeft, n))
                         THEN pc' = "abort" /\ pu' = p2
                         ELSE pu' = p2 /\ pc' = "pu_back"
                 ELSE IF ndebug THEN pu' = p1 /\ pc' = "pu_loop"
                      ELSE pc' = "abort" /\ pu' = p1

\* while (c > 0) { *dst++ = *src++; --c; }
PalmLiteralCopy ==
    /\ pc = "pu_lit"
    /\ UNCHANGED <<ndebug, bookVars, huffVars, ex>>
    /\ IF pu.c = 0
       THEN pc' = "pu_loop" /\ UNCHANGED pu
       ELSE /\ pc' = "pu_lit"
            /\ IF pu.s >= 0 /\ pu.s < Len(pu.src)
               THEN pu' = [ PalmWrite(pu, pu.src[pu.s + 1])
                              EXCEPT !.s = @ + 1, !.c = @ - 1,
                                     !.oobSrcRead = @ \/ pu.s >= pu.srcLen ]
               ELSE \E g \in GarbageBytes :
                      pu' = [ PalmWrite(pu, g)
                                EXCEPT !.s = @ + 1, !.c = @ - 1, !.oobSrcRead = TRUE ]

\* while (n > 0) { *dst++ = *dstBack++; --n; }
PalmBackCopy ==
    /\ pc = "pu_back"
    /\ UNCHANGED <<ndebug, bookVars, huffVars, ex>>
    /\ IF pu.n = 0
       THEN pc' = "pu_loop" /\ UNCHANGED pu
       ELSE /\ pc' = "pu_back"
            /\ IF pu.dstBack >= 0 /\ pu.dstBack < Len(pu.dst)
               THEN pu' = [ PalmWrite(pu, pu.dst[pu.dstBack + 1])
                              EXCEPT !.dstBack = @ + 1, !.n = @ - 1 ]
               ELSE \E g \in GarbageBytes :
                      pu' = [ PalmWrite(pu, g)
                                EXCEPT !.dstBack = @ + 1, !.n = @ - 1, !.oobDstRead = TRUE ]

-----------------------------------------------------------------------------
(* loadDocument, loadDocRecordIntoBuffer, createFromFile *)

\* sizeof(buf) of lines 948 and 959
kDocBufLen == 6000

\* createFromFile returns: the book, or NULL after delete mb
CreateReturn(ok) ==
    /\ api' = [ api EXCEPT !.book = IF ok THEN "book" ELSE "null" ]
    /\ pc' = "done"

\* lines 1011-1017: parseHeader has returned
CreateFromFileParsed ==
    /\ pc \in { "ph_true", "ph_false" }
    /\ UNCHANGED <<ndebug, file, mb, ph, li, readLog, huffVars, pu, ex>>
    /\ IF pc = "ph_false"
       THEN CreateReturn(FALSE) /\ UNCHANGED ld
       ELSE \* loadDocument, line 983
            /\ UNCHANGED api
            /\ ld' = [ ld EXCEPT !.i = 1 ]
            /\ pc' = IF ~ndebug /\ ~UGt(mb.docUncompressedSize, 0)
                     THEN "abort" ELSE "ld_loop"

\* the test of line 990 that guards the body against the declared size
BodySizeChecked(nd) == ~nd

\* lines 986-999 and 936-940: one turn of the loop of loadDocument, up to
\* the call of ExtraDataSize
LoadDocument ==
    /\ pc = "ld_loop"
    /\ UNCHANGED <<ndebug, file, mb, ph, li, huffVars, pu>>
    /\ IF ld.i > mb.docRecCount
       THEN /\ UNCHANGED <<ld, ex, readLog>>
            /\ IF BodySizeChecked(ndebug) /\ mb.docUncompressedSize # Len(mb.doc)
               THEN pc' = "abort" /\ UNCHANGED api
               ELSE CreateReturn(TRUE)
       ELSE /\ readLog' = Append(readLog, ld.i)
            /\ \E r \in readRecord(file, mb, ld.i) :
                 IF ~r.ok
                 THEN CreateReturn(FALSE) /\ UNCHANGED <<ld, ex>>
                 ELSE /\ ld' = [ ld EXCEPT !.recData = r.buf, !.recSize = r.sizeOut ]
                      /\ ex' = ExtraEnter(r.buf, r.sizeOut, mb.trailersCount, mb.multibyte)
                      /\ pc' = "eds_loop"
                      /\ UNCHANGED api

\* lines 940-970: ExtraDataSize has returned
LoadDocRecordDispatch ==
    /\ pc = "eds_ret"
    /\ UNCHANGED <<ndebug, file, ph, li, readLog, hd, ex>>
    /\ LET recSize == ld.recSize - ex.res
           l1 == [ ld EXCEPT !.recSize = recSize ]
       IN CASE mb.compressionType = COMPRESSION_NONE ->
                 /\ UNCHANGED <<api, pu, hs>>
                 /\ IF recSize < 0 \/ recSize > Len(ld.recData)
                    THEN pc' = "crash" /\ ld' = l1 /\ UNCHANGED mb
                    ELSE /\ mb' = [ mb EXCEPT !.doc = @ \o Slice(ld.recData, 0, recSize) ]
                         /\ ld' = [ l1 EXCEPT !.i = @ + 1 ]
                         /\ pc' = "ld_loop"
            [] mb.compressionType = COMPRESSION_PALM ->
                 /\ UNCHANGED <<api, mb, hs>>
                 /\ ld' = l1
                 /\ pu' = PalmdocEnter(ld.recData, recSize, kDocBufLen)
                 /\ pc' = "pu_loop"
            [] mb.compressionType = COMPRESSION_HUFF ->
                 /\ UNCHANGED <<mb, pu>>
                 /\ ld' = l1
                 /\ IF ~mb.hasHuffDic
                    THEN UNCHANGED hs /\ (IF ndebug THEN CreateReturn(FALSE)
                                          ELSE pc' = "abort" /\ UNCHANGED api)
                    ELSE IF recSize < 0
                    THEN UNCHANGED <<hs, api>> /\ pc' = "crash"
                    ELSE /\ hs' = HuffEnter(ld.recData, recSize, kDocBufLen)
                         /\ pc' = "hd_loop"
                         /\ UNCHANGED api
            [] OTHER ->
                 /\ UNCHANGED <<mb, pu, hs>>
                 /\ ld' = l1
                 /\ IF ndebug THEN CreateReturn(FALSE) ELSE pc' = "abort" /\ UNCHANGED api

\* lines 949-955 and 963-969: the decompressor has returned
LoadDocRecordAppend ==
    /\ pc \in { "pu_ret", "hd_ret" }
    /\ UNCHANGED <<ndebug, file, ph, li, readLog, huffVars, pu, ex>>
    /\ LET uncompressedSize == IF pc = "pu_ret" THEN pu.res ELSE hs.res
           buf == IF pc = "pu_ret" THEN pu.dst ELSE hs.out
       IN IF ErrorValue = uncompressedSize
          THEN CreateReturn(FALSE) /\ UNCHANGED <<mb, ld>>
          ELSE /\ mb' = [ mb EXCEPT !.doc = @ \o Slice(buf, 0, uncompressedSize) ]
               /\ ld' = [ ld EXCEPT !.i = @ + 1 ]
               /\ pc' = "ld_loop"
               /\ UNCHANGED api

-----------------------------------------------------------------------------
(* Input files: the byte layouts of section 6 of the design document and of
   the structs of lines 56-156 and 228-250 *)

Zeros(n) == [ k \in 1..n |-> 0 ]
U16BE(v) == << (v \div 256) % 256, v % 256 >>
U32BE(v) == << (v \div 16777216) % 256, (v \div 65536) % 256, (v \div 256) % 256, v % 256 >>

RECURSIVE Concat(_)
Concat(ss) == IF ss = <<>> THEN <<>> ELSE Head(ss) \o Concat(Tail(ss))

RECURSIVE Patch(_, _)
\* buf with each [at, bytes] of ps written over it
Patch(buf, ps) ==
    IF ps = <<>> THEN buf
    ELSE LET q == Head(ps)
         IN Patch([ k \in 1..Len(buf) |->
                      IF k > q.at /\ k <= q.at + Len(q.bytes) THEN q.bytes[k - q.at]
                      ELSE buf[k] ], Tail(ps))

PdbHeaderBytes(tag, numRecords) ==
    Zeros(PdbTypeOffset) \o tag \o Zeros(PdbNumRecordsOffset - PdbTypeOffset - 8)
      \o U16BE(numRecords)

TableBytes(offsets) == Concat([ k \in 1..Len(offsets) |-> U32BE(offsets[k]) \o Zeros(4) ])

\* where the records of a file of n records begin
RecordsStart(n) == kPdbHeaderLen + n * kPdbRecordHeaderLen

\* the offsets of records laid out one after the other
RECURSIVE LayoutFrom(_, _)
LayoutFrom(at, recs) ==
    IF recs = <<>> THEN <<>>
    ELSE <<at>> \o LayoutFrom(at + Len(Head(recs)), Tail(recs))

\* a well-formed file holding the records recs
BuildFile(tag, recs) ==
    PdbHeaderBytes(tag, Len(recs))
      \o TableBytes(LayoutFrom(RecordsStart(Len(recs)), recs)) \o Concat(recs)

\* the same file with the record table replaced by offsets
BuildFileWithTable(tag, recs, offsets) ==
    PdbHeaderBytes(tag, Len(offsets)) \o TableBytes(offsets) \o Concat(recs)

PalmDocHeaderBytes(compr, size, count, encr) ==
    U16BE(compr) \o <<0, 0>> \o U32BE(size) \o U16BE(count) \o U16BE(4096)
      \o U16BE(encr) \o <<0, 0>>

\* a MOBI header of hdrLen bytes (hdrLen >= 232) from the fields m
MobiHeaderBytes(m) ==
    Patch(Zeros(m.hdrLen),
          << [ at |-> MobiHeaderOff.id, bytes |-> m.id ],
             [ at |-> MobiHeaderOff.hdrLen, bytes |-> U32BE(m.hdrLen) ],
             [ at |-> MobiHeaderOff.fullNameOffset, bytes |-> U32BE(m.fullNameOffset) ],
             [ at |-> MobiHeaderOff.fullNameLen, bytes |-> U32BE(m.fullNameLen) ],
             [ at |-> MobiHeaderOff.imageFirstRec, bytes |-> U32BE(m.imageFirstRec) ],
             [ at |-> MobiHeaderOff.huffmanFirstRec, bytes |-> U32BE(m.huffmanFirstRec) ],
             [ at |-> MobiHeaderOff.huffmanRecCount, bytes |-> U32BE(m.huffmanRecCount) ],
             [ at |-> MobiHeaderOff.exhtFlags, bytes |-> U32BE(m.exhtFlags) ],
             [ at |-> MobiHeaderOff.lastContentRecord, bytes |-> U16BE(m.lastContentRecord) ],
             [ at |-> MobiHeaderOff.extraDataFlags, bytes |-> U16BE(m.extraDataFlags) ] >>)

ExthRecordBytes(r) == U32BE(r.type) \o U32BE(ExthRecordOff.data + Len(r.payload)) \o r.payload

ExthBytes(rs) ==
    LET body == Concat([ k \in 1..Len(rs) |-> ExthRecordBytes(rs[k]) ])
    IN Tag_EXTH \o U32BE(kExthHeaderLen + Len(body)) \o U32BE(Len(rs)) \o body

\* record 0 of a MOBI book: PalmDOC header, MOBI header, EXTH records rs
\* (when exth), then the full name
MobiRecord0(pd, m, exth, rs, name) ==
    LET ext == IF exth THEN ExthBytes(rs) ELSE <<>>
        at == kPalmDocHeaderLen + m.hdrLen + Len(ext)
    IN pd \o MobiHeaderBytes([ m EXCEPT !.fullNameOffset = at, !.fullNameLen = Len(name),
                                        !.exhtFlags = IF exth THEN 64 ELSE 0 ])
          \o ext \o name

PlainMobi ==
    [ id |-> Tag_MOBI, hdrLen |-> kMobiHeaderLen, fullNameOffset |-> 0, fullNameLen |-> 0,
      imageFirstRec |-> 0, huffmanFirstRec |-> 0, huffmanRecCount |-> 0,
      exhtFlags |-> 0, lastContentRecord |-> 0, extraDataFlags |-> 0 ]

\* the books under test

OTHER_TYPE_CREATOR == <<116, 101, 120, 116, 82, 69, 65, 100>>
BodyHi == <<72, 105>>
BodyBang == <<33>>
NameN == <<78>>

\* raw PalmDOC files of n records whose record table holds any offsets;
\* -1 is the offset 0xFFFFFFFF
TableOffsets(n) ==
    LET s == RecordsStart(n)
    IN { s, s + kPalmDocHeaderLen, s + kPalmDocHeaderLen + Len(BodyHi),
         s + kPalmDocHeaderLen + Len(BodyHi) + Len(BodyBang), 4000, -1 }

DeclaredBodies == { <<0, 0>>, <<1, 2>>, <<2, 3>>, <<1, 3>>, <<2, 2>> }

TableFilesOf(n) ==
    { BuildFileWithTable(PALMDOC_TYPE_CREATOR,
        SubSeq(<< PalmDocHeaderBytes(COMPRESSION_NONE, d[2], d[1], 0), BodyHi >>
                 \o [ k \in 1..n |-> BodyBang ], 1, n),
        offs) :
      d \in DeclaredBodies, offs \in [ 1..n -> TableOffsets(n) ] }

TableFiles == UNION { TableFilesOf(n) : n \in 1..MaxRecords }

BrokenFiles ==
    { <<>>, Zeros(10), PdbHeaderBytes(PALMDOC_TYPE_CREATOR, 0),
      PdbHeaderBytes(MOBI_TYPE_CREATOR, 2),
      BuildFile(OTHER_TYPE_CREATOR, << PalmDocHeaderBytes(COMPRESSION_NONE, 2, 1, 0), BodyHi >>),
      BuildFile(PALMDOC_TYPE_CREATOR, << U16BE(COMPRESSION_NONE), BodyHi >>) }

\* both containers, every compression and encryption word, with and
\* without a MOBI header behind the PalmDOC header
HeaderFiles ==
    { BuildFile(tag,
        << PalmDocHeaderBytes(compr, 2, 1, encr)
             \o (IF withMobi THEN MobiHeaderBytes(PlainMobi) ELSE <<>>),
           BodyHi >>) :
      tag \in { MOBI_TYPE_CREATOR, PALMDOC_TYPE_CREATOR },
      compr \in { COMPRESSION_NONE, COMPRESSION_PALM, COMPRESSION_HUFF, 0 },
      encr \in { ENCRYPTION_NONE, 1, 2 }, withMobi \in BOOLEAN }

JpgRec == JPG_MAGIC \o <<1>>
PngRec == PNG_MAGIC
GifRec == GIF_MAGIC \o <<57, 97>>
EofRec == <<233, 142, 13, 10>>
FlisRec == <<70, 76, 73, 83>>

ExthLists ==
    { <<>>,
      << [ type |-> 100, payload |-> <<74, 97>> ] >>,
      << [ type |-> 100, payload |-> <<74>> ], [ type |-> 100, payload |-> <<68>> ] >>,
      << [ type |-> 100, payload |-> <<74, 0, 68>> ] >>,
      << [ type |-> 100, payload |-> <<>> ] >>,
      << [ type |-> 503, payload |-> <<84>> ] >>,
      << [ type |-> 503, payload |-> <<84>> ], [ type |-> 503, payload |-> <<85, 0>> ] >>,
      << [ type |-> 503, payload |-> <<84, 0>> ], [ type |-> 100, payload |-> <<74, 0>> ] >>,
      << [ type |-> 1, payload |-> <<120>> ], [ type |-> 100, payload |-> <<65, 0>> ] >>,
      << [ type |-> 101, payload |-> <<80, 0>> ] >>,
      << [ type |-> 201, payload |-> U32BE(0) ] >>,
      << [ type |-> 201, payload |-> U32BE(1) ] >>,
      << [ type |-> 201, payload |-> U32BE(5) ] >> }

CoverLists == { rs \in ExthLists : rs = <<>> \/ rs[1].type = 201 }

\* MOBI books with a raw body, two images and EXTH records rs
ExthFiles ==
    { BuildFile(MOBI_TYPE_CREATOR,
        << MobiRecord0(PalmDocHeaderBytes(COMPRESSION_NONE, 2, 1, 0),
                       [ PlainMobi EXCEPT !.imageFirstRec = 2, !.lastContentRecord = 3 ],
                       exth, rs, NameN),
           BodyHi, JpgRec, PngRec >>) :
      exth \in BOOLEAN, rs \in ExthLists }

ImageLists ==
    { <<>>, <<JpgRec>>, <<PngRec>>, <<GifRec>>, <<<<7>>>>, <<<<>>>>, <<EofRec>>, <<FlisRec>>,
      <<EofRec \o <<0>>>>,
      <<JpgRec, PngRec>>, <<PngRec, JpgRec>>, <<<<>>, JpgRec>>, <<FlisRec, JpgRec>>,
      <<EofRec, JpgRec>>, <<JpgRec, EofRec>>, <<JpgRec, <<>>>>, <<<<7>>, GifRec>> }

\* the image indices a header may declare for k image records behind two
\* other records
ImageIndices(k) ==
    { [ first |-> 2, last |-> 1 + k ], [ first |-> 2, last |-> 2 + k ],
      [ first |-> 0, last |-> 1 + k ], [ first |-> 2 + k, last |-> 2 + k ],
      [ first |-> 2, last |-> 0 ] }

ImageFiles ==
    { BuildFile(MOBI_TYPE_CREATOR,
        << MobiRecord0(PalmDocHeaderBytes(COMPRESSION_NONE, 2, 1, 0),
                       [ PlainMobi EXCEPT !.imageFirstRec = ix.first,
                                          !.lastContentRecord = ix.last ],
                       rs # <<>>, rs, NameN),
           BodyHi >> \o imgs) :
      imgs \in ImageLists, ix \in UNION { ImageIndices(k) : k \in 0..2 }, rs \in CoverLists }

BodyRecords ==
    { BodyHi, <<>>, <<2, 72, 105>>, <<65, 128, 9>>, <<193>>, <<128, 0>>, <<72, 105, 1>>,
      <<72, 105, 0, 0, 0, 1>>, <<72, 105, 0, 0, 0, 9>>, <<9, 65>> }

\* MOBI books with one body record, raw or PalmDOC-compressed, under every
\* combination of the multibyte flag and two trailer flags
BodyFiles ==
    { BuildFile(MOBI_TYPE_CREATOR,
        << MobiRecord0(PalmDocHeaderBytes(compr, 2, 1, 0),
                       [ PlainMobi EXCEPT !.extraDataFlags = flags ], FALSE, <<>>, NameN),
           body >>) :
      compr \in { COMPRESSION_NONE, COMPRESSION_PALM }, flags \in { 0, 1, 2, 3, 6 },
      body \in BodyRecords }

\* a HUFF record of len bytes whose cache entry k is terminal, of code
\* length 8 and value k, so that every byte decodes to symbol 0
HuffRecordBytes(tag, len) ==
    LET head == tag \o U32BE(kHuffHeaderLen) \o U32BE(kHuffHeaderLen)
                  \o U32BE(kHuffHeaderLen + kCacheDataLen) \o Zeros(8)
        cache == Concat([ k \in 1..256 |-> U32BE((k - 1) * 256 + 136) ])
    IN head \o cache \o Zeros(len - kHuffHeaderLen - kCacheDataLen)

CdicRecordBytes(tag, codeLen, dict) ==
    tag \o U32BE(kCdicHeaderLen) \o U32BE(0) \o U32BE(codeLen) \o dict

HuffFiles ==
    { BuildFile(MOBI_TYPE_CREATOR,
        << MobiRecord0(PalmDocHeaderBytes(COMPRESSION_HUFF, Len(body), 1, 0),
                       [ PlainMobi EXCEPT !.huffmanFirstRec = 2, !.huffmanRecCount = 2 ],
                       FALSE, <<>>, NameN),
           body, HuffRecordBytes(t[1], len), CdicRecordBytes(t[2], 1, <<0, 2, 128, 1, 65>>) >>) :
      body \in { <<7>>, <<7, 9>> }, len \in { kHuffRecordLen, kHuffRecordMinLen },
      t \in { << Tag_HUFF, Tag_CDIC >>, << <<88, 85, 70, 70>>, Tag_CDIC >>,
              << <<88, 85, 70, 70>>, <<88, 68, 73, 67>> >> } }

\* books with a HUFF record followed by two CDIC records
CdicFiles ==
    { BuildFile(MOBI_TYPE_CREATOR,
        << MobiRecord0(PalmDocHeaderBytes(COMPRESSION_HUFF, 1, 1, 0),
                       [ PlainMobi EXCEPT !.huffmanFirstRec = 2, !.huffmanRecCount = 3 ],
                       FALSE, <<>>, NameN),
           <<7>>, HuffRecordBytes(<<88, 85, 70, 70>>, kHuffRecordLen),
           CdicRecordBytes(<<88, 68, 73, 67>>, 1, <<0, 2, 128, 1, 65>>),
           CdicRecordBytes(<<88, 68, 73, 67>>, codeLen, <<0, 2, 128, 1, 66>>) >>) :
      codeLen \in { 1, 2 } }

Files ==
    TableFiles \cup BrokenFiles \cup HeaderFiles \cup ExthFiles \cup ImageFiles
      \cup BodyFiles \cup HuffFiles \cup CdicFiles

-----------------------------------------------------------------------------
(* Specifications *)

\* MobiBook::createFromFile on any of the books under test, then the image
\* accessors on the book it returned
Init ==
    /\ ndebug \in BOOLEAN
    /\ file \in Files
    /\ pc = "ph_start"
    /\ mb = NewMobiBook /\ ph = NewParseHeader /\ readLog = <<>>
    /\ li = 0 /\ ld = NewLoadDocument /\ api = NoCalls
    /\ hd = NewHuffDic /\ hs = HuffIdle
    /\ pu = PalmdocEnter(<<>>, 0, 0) /\ ex = ExtraIdle

Next ==
    \/ ParseHeaderReadPdb \/ ParseHeaderValidateOffsets \/ ParseHeaderPalmDoc
    \/ ParseHeaderMobi \/ ParseHeaderExth \/ ParseHeaderExthRecord
    \/ ParseHeaderHuff \/ ParseHeaderCdic \/ LoadImages \/ LoadImage
    \/ CreateFromFileParsed \/ LoadDocument
    \/ ExtraTrailer \/ ExtraMultibyte \/ LoadDocRecordDispatch
    \/ PalmLoop \/ PalmLiteralCopy \/ PalmBackCopy \/ HuffStep
    \/ LoadDocRecordAppend \/ GetImage \/ GetCover

Spec == Init /\ [][Next]_vars

InitPalmdoc ==
    /\ ndebug \in BOOLEAN
    /\ pc = "pu_loop"
    /\ ex = ExtraIdle
    /\ file = <<>> /\ mb = NewMobiBook /\ ph = NewParseHeader /\ readLog = <<>>
    /\ li = 0 /\ ld = NewLoadDocument /\ api = NoCalls
    /\ hd = NewHuffDic /\ hs = HuffIdle
    /\ \E src \in SeqsUpTo(PalmSrcBytes, MaxSrcLen), dstLen \in 0..MaxDstLen :
         pu = PalmdocEnter(src, Len(src), dstLen)

NextPalmdoc == PalmLoop \/ PalmLiteralCopy \/ PalmBackCopy

SpecPalmdoc == InitPalmdoc /\ [][NextPalmdoc]_vars

\* PalmdocUncompress, called as loadDocRecordIntoBuffer calls it, on a
\* literal prefix followed by one two-byte item
PalmPairPrefixes == { <<>>, <<65>>, <<8, 65, 66, 67, 68, 69, 70, 71, 72>> }
PalmPairSources ==
    { <<1, 65>> } \cup
    { pre \o <<c, b>> : pre \in PalmPairPrefixes, c \in { 128, 129, 191 },
                        b \in { 0, 8, 9, 11, 15, 255 } }

InitPalmPairs ==
    /\ ndebug \in BOOLEAN
    /\ pc = "pu_loop"
    /\ ex = ExtraIdle
    /\ file = <<>> /\ mb = NewMobiBook /\ ph = NewParseHeader /\ readLog = <<>>
    /\ li = 0 /\ ld = NewLoadDocument /\ api = NoCalls
    /\ hd = NewHuffDic /\ hs = HuffIdle
    /\ \E src \in PalmPairSources : pu = PalmdocEnter(src, Len(src), kDocBufLen)

SpecPalmPairs == InitPalmPairs /\ [][NextPalmdoc]_vars

InitExtra ==
    /\ ndebug \in BOOLEAN
    /\ pc = "eds_loop"
    /\ pu = PalmdocEnter(<<>>, 0, 0)
    /\ file = <<>> /\ mb = NewMobiBook /\ ph = NewParseHeader /\ readLog = <<>>
    /\ li = 0 /\ ld = NewLoadDocument /\ api = NoCalls
    /\ hd = NewHuffDic /\ hs = HuffIdle
    /\ \E recData \in SeqsUpTo(TrailerBytes, MaxRecLen),
          trailersCount \in 0..MaxTrailers, multibyte \in BOOLEAN :
         ex = ExtraEnter(recData, Len(recData), trailersCount, multibyte)

NextExtra == ExtraTrailer \/ ExtraMultibyte

SpecExtra == InitExtra /\ [][NextExtra]_vars

\* tables and dictionaries of the decoder under test
\* cache tables: one entry for the codes that begin with bit 0, one for the rest
HuffCacheTables ==
    { <<136, 136>>, <<392, 392>>, <<8, 8>>, <<129, 129>>, <<0, 136>>, <<136, 392>>,
      <<129, 136>> }
HuffBaseEntries == { 0, 300 }
HuffDictionaries ==
    { << 0, 2, 128, 1, 65 >>,            \* symbol 0: the byte 65
      << 0, 2, 128, 2, 65, 66 >>,        \* symbol 0: the bytes 65 66
      << 0, 2, 0, 1, 0 >>,               \* symbol 0: compressed, decodes to itself
      << 0, 4, 0, 7, 128, 1, 65, 0, 1, 0 >>,
      << 0, 2, 0, 1, 128 >>,             \* symbol 0: compressed, one byte 128
      << 0, 3, 128 >>,                   \* offset = dictSize
      << 0, 1, 128, 1 >>,                \* symbol body behind the dictionary
      << 128, 0, 0 >>,                   \* offset > dictSize
      << 0, 2, 128, 200 >> }             \* symLen > 127
HuffInputs == { <<>>, <<0>>, <<128>>, <<0, 0>>, <<0, 128>>, <<255>> }
MaxHuffDst == 2

HuffDictLists ==
    { <<>> } \cup { <<d>> : d \in HuffDictionaries }
      \cup { <<d, e>> : d \in HuffDictionaries, e \in { <<0, 2, 128, 1, 66>> } }

InitHuff ==
    /\ ndebug \in BOOLEAN
    /\ pc = "hd_loop"
    /\ file = <<>> /\ mb = NewMobiBook /\ ph = NewParseHeader /\ readLog = <<>>
    /\ li = 0 /\ ld = NewLoadDocument /\ api = NoCalls
    /\ pu = PalmdocEnter(<<>>, 0, 0) /\ ex = ExtraIdle
    /\ \E c \in HuffCacheTables, b \in HuffBaseEntries,
          ds \in HuffDictLists, cl \in {0, 1} :
         /\ \A k \in 1..Len(ds) : Len(ds[k]) > Pow2(cl)
         /\ hd = [ cacheTable |-> [ k \in 1..256 |-> IF k <= 128 THEN c[1] ELSE c[2] ],
                   baseTable |-> [ k \in 1..64 |-> b ],
                   dictsCount |-> Len(ds),
                   dicts |-> [ k \in 1..Len(ds) |-> [ null |-> FALSE, bytes |-> ds[k] ] ],
                   dictSize |-> [ k \in 1..Len(ds) |-> Len(ds[k]) ],
                   code_length |-> cl ]
    /\ \E src \in HuffInputs, dstSize \in 0..MaxHuffDst :
         hs = HuffEnter(src, Len(src), dstSize)

NextHuff == HuffStep

SpecHuff == InitHuff /\ [][NextHuff]_vars

-----------------------------------------------------------------------------
(* C1: when parseHeader succeeds, every adjacent pair of the record table is
   non-decreasing and the sentinel entry equals the file length; when some
   pair (the one with the sentinel included) decreases, parseHeader fails:
   nothing beyond the table is read and no Book is returned. *)
C1_OffsetsValidated ==
    LET n == mb.numRecords
        decreasing ==
            \E k \in 1..n : ULt(mb.recHeaders[k + 1], mb.recHeaders[k])
    IN /\ pc = "ph_true" =>
            /\ Len(mb.recHeaders) = n + 1
            /\ ~decreasing
            /\ mb.recHeaders[n + 1] = Len(file)
       /\ (mb.recHeaders # <<>> /\ decreasing) =>
            /\ pc \in { "ph_validate", "ph_false", "done" }
            /\ api.book # "book"
            /\ readLog = <<>>

C1_Witness == pc = "ph_true" /\ mb.numRecords >= 2

(* C2: whenever createFromFile returns a Book, the length of the assembled
   body equals the uncompressedDocSize of the PalmDOC header. *)
C2_BodyHasDeclaredSize ==
    api.book = "book" => Len(mb.doc) = mb.docUncompressedSize

(* C3: PalmdocUncompress never writes at a destination position >= dstLen,
   and when it returns, the value is the error value or a count <= dstLen. *)
C3_NoWritePastDst ==
    /\ ~pu.oobWrite
    /\ pc = "pu_ret" => (pu.res = ErrorValue \/ pu.res <= pu.dstLen)

(* C4: every dictionary access of DecodeOne uses dict < dictsCount and reads
   only positions < dictSize[dict]. *)
C4_DictReadsInBounds == ~hs.badDict /\ ~hs.oobRead

(* C5: Decompress never writes more than dstSize bytes, no dstLeft
   underflows, and it returns the error value or a count <= dstSize. *)
C5_HuffOutputBounded ==
    /\ Len(hs.out) <= hs.dstSize
    /\ \A k \in 1..Len(hs.stack) :
         hs.stack[k].dstLeft >= 0 /\ hs.stack[k].dstLeft <= hs.stack[k].dstSize
    /\ pc = "hd_ret" => (hs.res = ErrorValue \/ (hs.res >= 0 /\ hs.res <= hs.dstSize))

\* a symbol that did not fit the room left has made a decoding fail with
\* the destination partly written
C5_Witness ==
    pc = "hd_ret" /\ hs.noRoom /\ hs.res = ErrorValue /\ Len(hs.out) >= 1

(* C6: trailer stripping keeps the visible length non-increasing and in
   0..recLen, returns a stripped count in 0..recLen, and inspects no byte
   outside 0..recLen-1. *)
C6_StripWithinRecord ==
    /\ ex.mono
    /\ ex.newLen >= 0 /\ ex.newLen <= ex.recLen
    /\ ~ex.oobRead
    /\ pc = "eds_ret" => (ex.res >= 0 /\ ex.res <= ex.recLen)

(* C7: getImage(i+1) returns slot i when that slot was loaded with non-empty
   data; for recindex 0, for recindex > imagesCount and for an empty slot it
   returns nothing. *)
C7_GetImageRoundTrip ==
    api.fn = "getImage" =>
        LET i == api.arg
            loaded == /\ i >= 1 /\ i <= mb.imagesCount
                      /\ mb.images[i].data # NULL /\ mb.images[i].len > 0
        IN api.ret = IF loaded THEN i - 1 ELSE -1

C7_Witness == api.fn = "getImage" /\ api.arg = 2 /\ api.ret = 1

(* C8: after the EXTH records have been processed in file order, the author
   is the concatenation of the len-8 payload bytes of the type-100 records
   and the title is the payload of the last type-503 record, or the full
   name when there is none. *)
C8_ExthDispatch ==
    (pc = "ph_huff" /\ ph.exth # <<>>) =>
        LET of(t) == SelectSeq(ph.exth, LAMBDA r : r.type = t)
            titles == of(503)
        IN /\ mb.author = Concat([ k \in 1..Len(of(100)) |-> of(100)[k].payload ])
           /\ mb.title = IF titles = <<>> THEN ph.fullName
                         ELSE titles[Len(titles)].payload

(* C9: getCover returns no cover or a slot in 0..imagesCount-1 that holds
   loaded, non-empty data. *)
C9_CoverIsLoadedSlot ==
    api.fn = "getCover" =>
        \/ api.ret = -1
        \/ /\ api.ret >= 0 /\ api.ret < mb.imagesCount
           /\ mb.images[api.ret + 1].data # NULL /\ mb.images[api.ret + 1].len > 0

(* C10: for a BOOKMOBI container whose PalmDOC encryption field is not 0,
   parseHeader fails having read record 0 only (no EXTH record, huffman
   record, image record or body record) and no Book is returned; for a
   TEXtREAd container the field does not make parseHeader fail. *)
C10_EncryptedRefused ==
    LET fieldSet == ph.palmDoc.seen /\ ~ph.oobRecord0 /\ ph.palmDoc.encrType # 0
    IN /\ (mb.isMobi /\ fieldSet) =>
            /\ pc \in { "ph_false", "done" }
            /\ api.book # "book"
            /\ readLog = <<0>>
            /\ ph.exth = <<>> /\ ~mb.hasHuffDic /\ mb.images = NULL /\ mb.doc = <<>>
       /\ (~mb.isMobi /\ fieldSet /\ IsValidCompression(ph.palmDoc.compressionType)
             /\ Len(mb.firstRecData) = kPalmDocHeaderLen) => pc # "ph_false"

C10_Witness ==
    /\ mb.isMobi /\ ph.palmDoc.seen /\ ~ph.oobRecord0
    /\ ph.palmDoc.encrType # 0 /\ IsValidCompression(ph.palmDoc.compressionType)
    /\ api.book = "null"

(* C11: createFromFile returns a Book only if no stage failed; in
   particular no Book is returned when an image record could not be read. *)
C11_NoBookAfterFailedStage ==
    api.book = "book" => ~ph.imageReadFailed

(* C12: SetHuffData accepts only a record that begins with "HUFF" and
   AddCdicData accepts only a record that begins with "CDIC". *)
C12_TagsDecideAcceptance ==
    LET beginsWith(recNo, tag) ==
            /\ recNo >= 0 /\ recNo < mb.numRecords
            /\ TagAt(file, mb.recHeaders[recNo + 1], tag)
    IN /\ hd.cacheTable # <<>> => beginsWith(readLog[2], Tag_HUFF)
       /\ hd.dictsCount >= 1 => beginsWith(readLog[3], Tag_CDIC)

(* C13: parseHeader never interprets PalmDOC header fields from bytes that
   lie outside record 0, recLeft never wraps below zero, and a record 0
   shorter than the PalmDOC header makes parseHeader fail. *)
C13_TruncatedRecord0Refused ==
    /\ ~ph.oobRecord0
    /\ ph.recLeft >= 0
    /\ (ph.palmDoc.seen /\ Len(mb.firstRecData) < kPalmDocHeaderLen) =>
          (pc \in { "ph_false", "done" } /\ api.book # "book")

(* C14: a pair c, b with c in 128..191 appends exactly n = (w & 7) + 3
   bytes for w = c*256 + b, each copied from back = (w >> 3) & 0x7FF bytes
   before the position it is written to; after "ABCDEFGH" the pair 0x80
   0x0B has back = 1 and n = 6 and appends "HHHHHH"; 0x01 0x41 appends "A". *)
C14_BackReferenceCopies ==
    /\ pc = "pu_back" =>
          LET w == pu.src[pu.s - 1] * 256 + pu.src[pu.s]
              back == (w \div 8) % 2048
              n == (w % 8) + 3
          IN /\ Len(pu.dst) - pu.mark = n - pu.n
             /\ pu.n >= 0
             /\ \A j \in (pu.mark + 1)..Len(pu.dst) :
                  j - back >= 1 => pu.dst[j] = pu.dst[j - back]
    /\ (pc = "pu_ret" /\ pu.src = <<8, 65, 66, 67, 68, 69, 70, 71, 72, 128, 11>>) =>
          pu.dst = <<65, 66, 67, 68, 69, 70, 71, 72, 72, 72, 72, 72, 72, 72>>
    /\ (pc = "pu_ret" /\ pu.src = <<1, 65>>) => pu.dst = <<65>>

C14_Witness ==
    /\ pc = "pu_ret" /\ pu.src = <<8, 65, 66, 67, 68, 69, 70, 71, 72, 128, 11>>
    /\ pu.res = 14

(* C14 as stated: after "ABCDEFGH" the pair 0x80 0x0B appends exactly
   "HHH". *)
C14_PairAppendsThree ==
    (pc = "pu_ret" /\ pu.src = <<8, 65, 66, 67, 68, 69, 70, 71, 72, 128, 11>>) =>
        pu.dst = <<65, 66, 67, 68, 69, 70, 71, 72, 72, 72, 72>>

(* C15: PalmdocUncompress returns the error value and writes nothing when
   the source ends right after a first byte in 128..191 or when a
   back-reference points before the start of the destination, and it never
   reads before the start of the destination or past the end of the source. *)
C15_MalformedPairRefused ==
    /\ ~pu.oobDstRead
    /\ ~pu.oobSrcRead
    /\ (pc = "pu_ret" /\ pu.src \in { <<128>>, <<128, 8>> }) =>
          (pu.res = ErrorValue /\ pu.dst = <<>>)

(* C16: every dictionary counted in dictsCount was declared with the codeLen
   that code_length holds, a record that was not accepted leaves code_length
   alone, and dictsCount never exceeds 32. *)
C16_OneCodeLength ==
    LET declared(recNo) == BeU32At(Slice(file, mb.recHeaders[recNo + 1], kCdicHeaderLen), 12)
        inTable(recNo) ==
            /\ recNo >= 0 /\ recNo < mb.numRecords
            /\ mb.recHeaders[recNo + 1] >= 0
            /\ mb.recHeaders[recNo + 1] + kCdicHeaderLen <= Len(file)
    IN /\ \A k \in 1..hd.dictsCount :
            inTable(readLog[2 + k]) => declared(readLog[2 + k]) = hd.code_length
       /\ hd.dictsCount = 0 => hd.code_length = 0
       /\ hd.dictsCount <= kCdicsMax

(* C17: image loading stops at the first image record whose first four
   bytes are E9 8E 0D 0A, whatever the length of that record: its slot and
   every slot after it stay empty. *)
C17_EofMarkerStopsLoading ==
    LET beginsWithEof(recNo) ==
            /\ recNo >= 0 /\ recNo < mb.numRecords
            /\ getRecordSize(mb, recNo) >= 4
            /\ TagAt(file, mb.recHeaders[recNo + 1], <<233, 142, 13, 10>>)
    IN mb.images # NULL =>
         \A k \in 1..Len(mb.images) : \A j \in 1..k :
            beginsWithEof(mb.imageFirstRec + j - 1) => mb.images[k].data = NULL

(* C18: the recursive decoding of compressed symbols cannot recurse
   forever: no activation of Decompress that has not yet consumed a bit or
   written a byte starts an activation with exactly its own arguments (the
   same bytes inside a dictionary, the same length, the same room), which
   would repeat the call without end. *)
C18_RecursionEnds ==
    \A i \in 1..(Len(hs.stack) - 1) :
        LET caller == hs.stack[i]
            callee == hs.stack[i + 1]
        IN ~ /\ caller.pos = 0 /\ caller.dstLeft = caller.dstSize
             /\ caller.base + caller.srcSize <= Len(HuffBytes(hd, hs, caller.buf))
             /\ callee.buf = caller.buf /\ callee.base = caller.base
             /\ callee.srcSize = caller.srcSize /\ callee.dstSize = caller.dstSize

(* C19: every record index passed to readRecord while a file is opened is
   below numRecords, and imagesCount = lastContentRecord - imageFirstRec + 1
   does not wrap around. *)
C19_RecordIndicesInTable ==
    /\ \A k \in 1..Len(readLog) : readLog[k] >= 0 /\ readLog[k] < mb.numRecords
    /\ mb.imagesCount >= 0

====
